---- MODULE Spec2Model ----
(***************************************************************************)
(* Verification model of the respondbridge webhook ingestion pipeline      *)
(* (src/app.py): the bounded intake queue, the worker pool, the circuit    *)
(* breaker and the message / conversation / contact writes of              *)
(* WebhookProcessor.                                                       *)
(*                                                                         *)
(* One WebhookProcessor is modelled (faster_processor and its three        *)
(* endpoints).  vip_processor runs the same code over a disjoint database  *)
(* and shares only the queue and the breaker with it.                      *)
(*                                                                         *)
(* Every pymongo call is one atomic step on a collection; a collection is  *)
(* a set of documents, a document a function from field names to values.   *)
(* Python's None is the value None below, a dict a function whose DOMAIN   *)
(* is its key set, and datetime values are [sec, ms] records.              *)
(***************************************************************************)
EXTENDS Integers, Sequences, FiniteSets, TLC

\* ---------------------------------------------------------------- bounds
\* Requests the gateway receives in one behaviour of Spec.
MaxSubmits == 3
\* Requests the gateway receives in one behaviour of SpecSerial.
MaxSerialSubmits == 3
\* Requests the gateway receives in one behaviour of SpecRace.
MaxRaceSubmits == 4
\* Requests the gateway receives in one behaviour of SpecLive.
MaxLiveSubmits == 3
\* Concurrent request-handling threads of the gateway.
NumProducers == 1
\* Clock ticks (seconds) that pass in one behaviour.
MaxTicks == 1
\* Store calls that fail or time out in one behaviour.
MaxFaults == 1
\* Queue(maxsize=10000), scaled down so that saturation is reachable.
QUEUE_MAXSIZE == 1
\* CIRCUIT_BREAKER_THRESHOLD = 10, scaled down.
CIRCUIT_BREAKER_THRESHOLD == 2
\* CIRCUIT_BREAKER_TIMEOUT = 60 seconds, scaled down to clock ticks.
CIRCUIT_BREAKER_TIMEOUT == 1
\* Requests the gateway receives in one behaviour of SpecContacts.
MaxContactSubmits == 3
\* Clock ticks (seconds) that pass in one behaviour of SpecBreaker.
MaxBreakerTicks == 4
\* Failure count the callers of SpecBreaker drive the breaker up to.
MaxFailures == 4
\* NUM_WORKERS = int(os.getenv('WEBHOOK_WORKERS', '4')), run with 2 workers.
NUM_WORKERS == 2
MaxLockCalls == 4
MaxIdentitySubmits == 3
MaxInlineSubmits == 4
MaxLockTicks == 2

\* time.time() at start-up lies far more than the breaker window after the
\* initial circuit_breaker_last_failure = 0.
StartTime == CIRCUIT_BREAKER_TIMEOUT + 1

Workers == {<<"worker", i>> : i \in 1..NUM_WORKERS}
Producers == {<<"producer", i>> : i \in 1..NumProducers}
Threads == Workers \cup Producers

\* ------------------------------------------------------ Python primitives
None == "null"

\* dict.get(key, default)
Get(d, k, default) == IF k \in DOMAIN d THEN d[k] ELSE default

\* Truth value of a string-or-None object: `not v` holds for None and ''.
Falsy(v) == v \in {None, ""}

\* str(v): the text of a string is itself, str(None) is 'None'.
Str(v) == IF v = None THEN "None" ELSE v

\* dict.update / Mongo $set on top-level fields: upd's fields win.
SetFields(doc, upd) == upd @@ doc

\* datetime.fromtimestamp(timestamp / 1000): epoch milliseconds to an instant.
FromTimestamp(timestamp) == [sec |-> timestamp \div 1000, ms |-> timestamp % 1000]

\* datetime.now() read off the model clock (whole seconds).
DatetimeNow(clock) == [sec |-> clock, ms |-> 0]

RECURSIVE SumCounts(_)
\* sum(media_counts.values())
SumCounts(f) ==
    IF DOMAIN f = {} THEN 0
    ELSE LET k == CHOOSE x \in DOMAIN f : TRUE
         IN f[k] + SumCounts([x \in DOMAIN f \ {k} |-> f[x]])

\* x in list
InList(x, s) == \E i \in 1..Len(s) : s[i] = x

\* ------------------------------------------------------------ collections
\* collection.find_one({'_id': id}): the matching documents (none or one).
FindOne(coll, id) == {d \in coll : d._id = id}

\* collection.update_one({'_id': id}, {'$set': upd}) without upsert.
UpdateOneSet(coll, id, upd) ==
    {IF d._id = id THEN SetFields(d, upd) ELSE d : d \in coll}

\* collection.update_one({'_id': id}, {'$set': upd}, upsert=True).
UpsertAlwaysInserts(coll, id, upd) == coll \cup {SetFields([_id |-> id], upd)}
UpdateOneUpsert(coll, id, upd) ==
    IF FindOne(coll, id) # {}
    THEN UpdateOneSet(coll, id, upd)
    ELSE coll \cup {SetFields([_id |-> id], upd)}

\* collection.insert_one(doc) raises DuplicateKeyError on a taken _id.
InsertRaises(coll, doc) == FindOne(coll, doc._id) # {}
InsertOne(coll, doc) == coll \cup {doc}

\* ObjectIds the driver generates for documents inserted without an _id.
ObjectId(n) == <<"oid1", "oid2", "oid3", "oid4", "oid5", "oid6">>[n]

\* ------------------------------------------------------------- normalizer
\* WebhookProcessor.extract_media_type(message_data)
ExtractMediaType(message_data) ==
    LET msg == Get(message_data, "message", <<>>)
        msg_type == Get(msg, "type", "text")
    IN  IF msg_type = "attachment"
        THEN Get(Get(msg, "attachment", <<>>), "type", "file")
        ELSE IF msg_type \in {"image", "video", "document", "file", "audio"}
        THEN msg_type
        ELSE IF msg_type = "media"
        THEN "media"
        ELSE None

\* `not phone and not contact_id`: the event identifies no contact.
MissingIdentity(webhook_data) ==
    LET contact == Get(webhook_data, "contact", <<>>)
    IN  Falsy(Get(contact, "phone", "")) /\ Falsy(Get(contact, "id", None))

\* A conversation key that prefers the contact id to the phone.
ChatIdPrefersId(webhook_data) ==
    LET contact == Get(webhook_data, "contact", <<>>)
        phone == Get(contact, "phone", "")
        contact_id == Get(contact, "id", None)
    IN  IF ~Falsy(contact_id) THEN Str(contact_id) ELSE phone

\* chat_id = phone if phone else str(contact_id)
ChatId(webhook_data) ==
    LET contact == Get(webhook_data, "contact", <<>>)
        phone == Get(contact, "phone", "")
        contact_id == Get(contact, "id", None)
    IN  IF ~Falsy(phone) THEN phone ELSE Str(contact_id)

\* message.get('timestamp'); a missing timestamp and 0 are both falsy.
Timestamp(webhook_data) == Get(Get(webhook_data, "message", <<>>), "timestamp", 0)

\* datetime.fromtimestamp(timestamp / 1000) if timestamp else datetime.now()
TsDatetime(timestamp, clock) ==
    IF timestamp # 0 THEN FromTimestamp(timestamp) ELSE DatetimeNow(clock)

\* sender of process_webhook: the chat for incoming traffic, the acting
\* user's email or the declared source for outgoing traffic.
Sender(webhook_data, traffic_type) ==
    IF traffic_type = "incoming"
    THEN ChatId(webhook_data)
    ELSE IF "user" \in DOMAIN webhook_data
         THEN Get(webhook_data.user, "email", "system")
         ELSE Get(webhook_data, "source", "system")

\* The type-specific fields process_webhook adds to message_doc.
TypeFields(message_content) ==
    LET message_type == Get(message_content, "type", "text")
        attachment == Get(message_content, "attachment", <<>>)
    IN  IF message_type = "attachment"
        THEN [attachment |-> [type |-> Get(attachment, "type", "file"),
                              url |-> Get(attachment, "url", None)]]
        ELSE IF message_type \in {"image", "video", "document", "audio"}
                /\ "url" \in DOMAIN message_content
        THEN (message_type \o "_url") :> message_content.url
        ELSE IF message_type = "location"
        THEN [location |-> [latitude |-> Get(message_content, "latitude", None),
                            longitude |-> Get(message_content, "longitude", None)]]
        ELSE <<>>

\* message_doc of process_webhook (the fields the claims read; the other
\* fields are copies of payload fields made the same way).
MessageDoc(webhook_data, traffic_type, clock) ==
    LET contact == Get(webhook_data, "contact", <<>>)
        message == Get(webhook_data, "message", <<>>)
        channel == Get(webhook_data, "channel", <<>>)
        message_id == Get(message, "messageId", None)
        message_content == Get(message, "message", <<>>)
        tag == IF "messageTag" \in DOMAIN message_content
               THEN [message_tag |-> message_content.messageTag]
               ELSE <<>>
    IN  TypeFields(message_content) @@ tag @@
        [_id |-> IF ~Falsy(message_id) THEN Str(message_id) ELSE None,
         chat_id |-> ChatId(webhook_data),
         ts |-> TsDatetime(Timestamp(webhook_data), clock),
         sender |-> Sender(webhook_data, traffic_type),
         type |-> Get(message_content, "type", "text"),
         message_type |-> traffic_type,
         contact_id |-> Get(contact, "id", None),
         channel_name |-> Get(channel, "name", None),
         event_id |-> Get(webhook_data, "event_id", None),
         created_at |-> DatetimeNow(clock)]

\* ------------------------------------------------------------- aggregator
ContactKeys ==
    {"id", "firstName", "lastName", "email", "phone", "language",
     "profilePic", "countryCode", "status"}

\* The contact snapshot update_conversation stores.
ContactSnapshot(contact) == [k \in ContactKeys |-> Get(contact, k, None)]

\* 'assignee' in contact
AssigneeField(contact) ==
    IF "assignee" \in DOMAIN contact THEN [assignee |-> contact.assignee] ELSE <<>>

\* update_doc of update_conversation for an existing conversation.
UpdateDocDropsLifecycle(existing, contact, channel, media_type, ts_datetime, clock) ==
    [updated_at |-> DatetimeNow(clock),
     last_message_ts |-> ts_datetime,
     message_count |-> Get(existing, "message_count", 0) + 1,
     contact |-> ContactSnapshot(contact)]
UpdateDocKeepsCount(existing, contact, channel, media_type, ts_datetime, clock) ==
    [updated_at |-> DatetimeNow(clock),
     last_message_ts |-> ts_datetime,
     message_count |-> Get(existing, "message_count", 0),
     contact |-> ContactSnapshot(contact)]
UpdateDoc(existing, contact, channel, media_type, ts_datetime, clock) ==
    LET media_counts == Get(existing, "media_counts", <<>>)
        mediaField ==
            IF ~Falsy(media_type)
            THEN [media_counts |->
                    (media_type :> (Get(media_counts, media_type, 0) + 1))
                    @@ media_counts]
            ELSE <<>>
        channel_name == Get(channel, "name", None)
        channels == Get(existing, "channel", <<>>)
        channelField ==
            IF ~Falsy(channel_name)
            THEN [channel |-> IF InList(channel_name, channels)
                              THEN channels
                              ELSE Append(channels, channel_name)]
            ELSE <<>>
        existing_contact == Get(existing, "contact", <<>>)
        lifecycleField ==
            IF "lifecycle" \in DOMAIN existing_contact
            THEN [lifecycle |-> existing_contact.lifecycle]
            ELSE <<>>
    IN  mediaField @@ channelField @@ AssigneeField(contact) @@
        [updated_at |-> DatetimeNow(clock),
         last_message_ts |-> ts_datetime,
         message_count |-> Get(existing, "message_count", 0) + 1,
         contact |-> lifecycleField @@ ContactSnapshot(contact)]

\* A new conversation whose media_counts stays as first written ({}).
ConversationDocWithoutMedia(chat_id, contact, channel, media_type, ts_datetime, clock) ==
    AssigneeField(contact) @@
    [_id |-> chat_id,
     created_at |-> DatetimeNow(clock),
     first_message_ts |-> ts_datetime,
     last_message_ts |-> ts_datetime,
     message_count |-> 1,
     media_counts |-> <<>>,
     updated_at |-> DatetimeNow(clock),
     channel |-> IF ~Falsy(Get(channel, "name", None))
                 THEN <<channel.name>> ELSE <<>>,
     contact |-> ContactSnapshot(contact),
     channel_info |-> [k \in {"id", "name", "source", "lastMessageTime",
                              "lastIncomingMessageTime"} |-> Get(channel, k, None)]]

\* conversation_doc of update_conversation for a new conversation.
ConversationDoc(chat_id, contact, channel, media_type, ts_datetime, clock) ==
    AssigneeField(contact) @@
    [_id |-> chat_id,
     created_at |-> DatetimeNow(clock),
     first_message_ts |-> ts_datetime,
     last_message_ts |-> ts_datetime,
     message_count |-> 1,
     media_counts |-> IF ~Falsy(media_type) THEN media_type :> 1 ELSE <<>>,
     updated_at |-> DatetimeNow(clock),
     channel |-> IF ~Falsy(Get(channel, "name", None))
                 THEN <<channel.name>> ELSE <<>>,
     contact |-> ContactSnapshot(contact),
     channel_info |-> [k \in {"id", "name", "source", "lastMessageTime",
                              "lastIncomingMessageTime"} |-> Get(channel, k, None)]]

\* ---------------------------------------------------------- lifecycle path
\* contact_doc of process_lifecycle_update (without its _id).
ContactDoc(webhook_data, clock) ==
    LET contact == Get(webhook_data, "contact", <<>>)
    IN  AssigneeField(contact) @@
        [phone |-> Get(contact, "phone", ""),
         firstName |-> Get(contact, "firstName", None),
         lastName |-> Get(contact, "lastName", None),
         email |-> Get(contact, "email", None),
         language |-> Get(contact, "language", None),
         profilePic |-> Get(contact, "profilePic", None),
         countryCode |-> Get(contact, "countryCode", None),
         status |-> Get(contact, "status", None),
         lifecycle |-> Get(webhook_data, "lifecycle", None),
         tags |-> Get(contact, "tags", <<>>),
         updated_at |-> DatetimeNow(clock)]

\* contact_doc['_id'] = str(contact_id)
ContactDocId(webhook_data) == Str(Get(Get(webhook_data, "contact", <<>>), "id", None))

\* lifecycle_change of process_lifecycle_update.
LifecycleChange(webhook_data, clock) ==
    [from |-> Get(webhook_data, "oldLifecycle", None),
     to |-> Get(webhook_data, "lifecycle", None),
     timestamp |-> DatetimeNow(clock),
     event_id |-> Get(webhook_data, "event_id", None)]

\* A contact upsert that sets lifecycle_history to the new entry.
UpsertContactSetsHistory(coll, id, upd, entry) ==
    IF FindOne(coll, id) # {}
    THEN {IF d._id = id
          THEN [lifecycle_history |-> <<entry>>] @@ SetFields(d, upd)
          ELSE d : d \in coll}
    ELSE coll \cup {[_id |-> id, lifecycle_history |-> <<entry>>] @@ upd}

\* contacts.update_one({'_id': id}, {'$set': upd, '$push':
\* {'lifecycle_history': entry}}, upsert=True): one atomic document update.
UpsertContact(coll, id, upd, entry) ==
    IF FindOne(coll, id) # {}
    THEN {IF d._id = id
          THEN [lifecycle_history |->
                    Append(Get(d, "lifecycle_history", <<>>), entry)]
               @@ SetFields(d, upd)
          ELSE d : d \in coll}
    ELSE coll \cup {[_id |-> id, lifecycle_history |-> <<entry>>] @@ upd}

\* conversations.update_one({'_id': chat_id}, {'$set': {'contact.lifecycle':
\* lifecycle, 'updated_at': now}}): the dotted path sets one nested field.
SetLifecycleUpserts(coll, chat_id, lifecycle, clock) ==
    IF FindOne(coll, chat_id) # {}
    THEN {IF d._id = chat_id
          THEN [contact |-> ("lifecycle" :> lifecycle) @@ Get(d, "contact", <<>>),
                updated_at |-> DatetimeNow(clock)] @@ d
          ELSE d : d \in coll}
    ELSE coll \cup {[_id |-> chat_id, contact |-> [lifecycle |-> lifecycle],
                     updated_at |-> DatetimeNow(clock)]}
SetLifecycleReplacesContact(coll, chat_id, lifecycle, clock) ==
    {IF d._id = chat_id
     THEN [contact |-> [lifecycle |-> lifecycle],
           updated_at |-> DatetimeNow(clock)] @@ d
     ELSE d : d \in coll}
SetConversationLifecycle(coll, chat_id, lifecycle, clock) ==
    {IF d._id = chat_id
     THEN [contact |-> ("lifecycle" :> lifecycle) @@ Get(d, "contact", <<>>),
           updated_at |-> DatetimeNow(clock)] @@ d
     ELSE d : d \in coll}

\* ----------------------------------------------------------------- inputs
\* Webhook payloads the gateway receives (the provider's payload shape).
Ann == [id |-> "c1", phone |-> "+1", firstName |-> "Ann"]

MsgText ==
    [event_type |-> "message.created", event_id |-> "e1",
     contact |-> Ann,
     message |-> [messageId |-> "m1", timestamp |-> 2000,
                  message |-> [type |-> "text"]],
     channel |-> [id |-> "ch1", name |-> "whatsapp"]]

MsgImage ==
    [event_type |-> "message.created", event_id |-> "e2",
     contact |-> [id |-> "c1", phone |-> "+1", firstName |-> "Anna",
                  assignee |-> "agent", lifecycle |-> "prospect"],
     message |-> [messageId |-> "m2", timestamp |-> 1000,
                  message |-> [type |-> "attachment",
                               attachment |-> [type |-> "image", url |-> "u"]]],
     channel |-> [id |-> "ch2", name |-> "telegram"]]

\* No provider message id, no timestamp, no phone: keyed by the contact id.
MsgNoId ==
    [event_type |-> "message.created", event_id |-> "e3",
     contact |-> [id |-> "c1"],
     message |-> [message |-> [type |-> "image", url |-> "v"]]]

\* Neither phone nor contact id.
MsgAnonymous ==
    [event_type |-> "message.created", event_id |-> "e4",
     contact |-> [firstName |-> "Nobody"],
     message |-> [messageId |-> "m4", timestamp |-> 1000,
                  message |-> [type |-> "text"]]]

MsgEcho ==
    [event_type |-> "message.created", event_id |-> "e5",
     contact |-> Ann, source |-> "api",
     message |-> [messageId |-> "m1", timestamp |-> 2000,
                  message |-> [type |-> "text", messageTag |-> "promo"]],
     channel |-> [id |-> "ch1", name |-> "whatsapp"]]

LifecycleAnn ==
    [event_type |-> "contact.lifecycle.updated", event_id |-> "e6",
     contact |-> Ann, lifecycle |-> "customer", oldLifecycle |-> "lead"]

\* The same contact moved back from customer to lead.
LifecycleBack ==
    [event_type |-> "contact.lifecycle.updated", event_id |-> "e7",
     contact |-> Ann, lifecycle |-> "lead", oldLifecycle |-> "customer"]

\* Contacts known by their phone number only.
LifecyclePhoneOnly ==
    [event_type |-> "contact.lifecycle.updated", event_id |-> "e8",
     contact |-> [phone |-> "+1", firstName |-> "Ann"],
     lifecycle |-> "customer", oldLifecycle |-> "lead"]

LifecycleOtherPhone ==
    [event_type |-> "contact.lifecycle.updated", event_id |-> "e9",
     contact |-> [phone |-> "+2", firstName |-> "Bob"],
     lifecycle |-> "lead", oldLifecycle |-> "prospect"]

\* An empty phone and no contact id.
LifecycleAnonymous ==
    [event_type |-> "contact.lifecycle.updated", event_id |-> "e10",
     contact |-> [phone |-> "", firstName |-> "Nobody"],
     lifecycle |-> "customer", oldLifecycle |-> "lead"]

\* request.get_json() of a request without a body.
NoData == <<>>


\* ------------------------------------------------------------------ state
VARIABLES
    webhook_queue,                 \* Queue: the tasks waiting, oldest first
    unfinished_tasks,              \* Queue.unfinished_tasks (put / task_done)
    circuit_breaker_failures,
    circuit_breaker_last_failure,
    messages,                      \* messages_collection
    conversations,                 \* conversations_collection
    contacts,                      \* contacts_collection
    now,                           \* the clock read by time.time() / datetime.now()
    pc,                            \* where each thread stands
    local,                         \* each thread's task and local variables
    oid,                           \* ObjectIds generated so far
    fault_budget,                  \* store calls that may still fail
    ledger,                        \* history: one entry per request received
    last_call,                     \* history: the last call of a breaker function
                                   \* made outside the worker loop, its result,
                                   \* the failure count it found, and the number
                                   \* of record_failure() calls made since the
                                   \* count was 0 with no record_success() since
    circuit_breaker_lock,          \* Lock: the thread holding it, or None
    caller,                        \* each worker's position inside a breaker
                                   \* function executed statement by statement
    sequential                     \* history: the breaker calls made statement by
                                   \* statement, applied whole and one at a time

vars ==
    <<webhook_queue, unfinished_tasks, circuit_breaker_failures,
      circuit_breaker_last_failure, messages, conversations, contacts, now,
      pc, local, oid, fault_budget, ledger, last_call, circuit_breaker_lock,
      caller, sequential>>

lockVars == <<circuit_breaker_lock, caller, sequential>>
breakerVars ==
    <<circuit_breaker_failures, circuit_breaker_last_failure, last_call, lockVars>>
storeVars == <<messages, conversations, contacts, oid>>
queueVars == <<webhook_queue, unfinished_tasks>>

NoTask == [tid |-> 0]
ZeroDt == [sec |-> 0, ms |-> 0]
IdleLocal == [task |-> NoTask, existing |-> {}, ts_datetime |-> ZeroDt, success |-> FALSE]
NoCall == [op |-> "none", result |-> FALSE, failures |-> 0, streak |-> 0]
NotCalling == [op |-> "none", at |-> "idle", reg |-> 0, result |-> FALSE, expected |-> FALSE]
NoCalls == [failures |-> 0, last_failure |-> 0, calls |-> 0]

Init ==
    /\ webhook_queue = <<>>
    /\ unfinished_tasks = 0
    /\ circuit_breaker_failures = 0
    /\ circuit_breaker_last_failure = 0
    /\ messages = {}
    /\ conversations = {}
    /\ contacts = {}
    /\ now = StartTime
    /\ pc = [t \in Threads |-> IF t \in Workers THEN "get" ELSE "idle"]
    /\ local = [t \in Threads |-> IdleLocal]
    /\ oid = 0
    /\ fault_budget = MaxFaults
    /\ ledger = <<>>
    /\ last_call = NoCall
    /\ circuit_breaker_lock = None
    /\ caller = [w \in Workers |-> NotCalling]
    /\ sequential = NoCalls

\* First step of the processing a task's webhook_type selects.
StartPcSkipsLifecycle(webhook_type) ==
    IF webhook_type = "message" THEN "message_write" ELSE "report"
StartPc(webhook_type) ==
    IF webhook_type = "message" THEN "message_write"
    ELSE IF webhook_type = "lifecycle" THEN "contact_write"
    ELSE "report"

\* The ledger after `calls` more store calls for task tid and a new outcome.
Ledger(tid, calls, outcome) ==
    [ledger EXCEPT ![tid].store_calls = @ + calls, ![tid].outcome = outcome]

\* ---------------------------------------------------------------- gateway
\* A fallback that consults the breaker as the worker does.
SyncFallbackChecksBreaker(p, task) ==
    /\ pc' = [pc EXCEPT ![p] =
                 IF /\ circuit_breaker_failures >= CIRCUIT_BREAKER_THRESHOLD
                    /\ now - circuit_breaker_last_failure <= CIRCUIT_BREAKER_TIMEOUT
                 THEN "respond"
                 ELSE StartPc(task.webhook_type)]
    /\ local' = [local EXCEPT ![p] = [IdleLocal EXCEPT !.task = task]]

\* except: (queue.Full) -- the endpoint processes the task itself.
SyncFallbackSkipped(p, task) == UNCHANGED <<pc, local>>
SyncFallback(p, task) ==
    /\ pc' = [pc EXCEPT ![p] = StartPc(task.webhook_type)]
    /\ local' = [local EXCEPT ![p] = [IdleLocal EXCEPT !.task = task]]

\* An endpoint that calls put() and waits for room in the queue.
EndpointPutBlocks(p, data, traffic_type, webhook_type, valid) ==
    LET task == [tid |-> Len(ledger) + 1, data |-> data,
                 traffic_type |-> traffic_type, webhook_type |-> webhook_type]
        entry == [task |-> task, mode |-> "refused", outcome |-> "pending",
                  store_calls |-> 0, response |-> 400]
    IN  /\ pc[p] = "idle"
        /\ \/ /\ DOMAIN data = {} \/ ~valid
              /\ ledger' = Append(ledger, entry)
              /\ UNCHANGED <<queueVars, pc, local>>
           \/ /\ DOMAIN data # {} /\ valid
              /\ Len(webhook_queue) < QUEUE_MAXSIZE
              /\ webhook_queue' = Append(webhook_queue, task)
              /\ unfinished_tasks' = unfinished_tasks + 1
              /\ ledger' = Append(ledger, [entry EXCEPT !.mode = "queued",
                                                        !.response = 200])
              /\ UNCHANGED <<pc, local>>
        /\ UNCHANGED <<breakerVars, storeVars, now, fault_budget>>

\* The body shared by the endpoints: 400 without data, else put_nowait, and
\* on queue.Full the same processing inline on the request thread.
Endpoint(p, data, traffic_type, webhook_type, valid) ==
    LET task == [tid |-> Len(ledger) + 1, data |-> data,
                 traffic_type |-> traffic_type, webhook_type |-> webhook_type]
        entry == [task |-> task, mode |-> "refused", outcome |-> "pending",
                  store_calls |-> 0, response |-> 400]
    IN  /\ pc[p] = "idle"
        /\ \/ /\ DOMAIN data = {} \/ ~valid
              /\ ledger' = Append(ledger, entry)
              /\ UNCHANGED <<queueVars, pc, local>>
           \/ /\ DOMAIN data # {} /\ valid
              /\ Len(webhook_queue) < QUEUE_MAXSIZE
              /\ webhook_queue' = Append(webhook_queue, task)
              /\ unfinished_tasks' = unfinished_tasks + 1
              /\ ledger' = Append(ledger, [entry EXCEPT !.mode = "queued",
                                                        !.response = 200])
              /\ UNCHANGED <<pc, local>>
           \/ /\ DOMAIN data # {} /\ valid
              /\ Len(webhook_queue) >= QUEUE_MAXSIZE
              /\ SyncFallback(p, task)
              /\ ledger' = Append(ledger, [entry EXCEPT !.mode = "inline",
                                                        !.response = 0])
              /\ UNCHANGED queueVars
        /\ UNCHANGED <<breakerVars, storeVars, now, fault_budget>>

\* POST /webhook/faster/incoming
FasterIncoming(p, data) == Endpoint(p, data, "incoming", "message", TRUE)

\* POST /webhook/faster/outgoing
FasterOutgoing(p, data) == Endpoint(p, data, "outgoing", "message", TRUE)

\* POST /webhook/faster/lifecycle
FasterLifecycle(p, data) ==
    Endpoint(p, data, None, "lifecycle",
             Get(data, "event_type", None) = "contact.lifecycle.updated")

\* The inline processing has returned: the endpoint answers 200.
Respond(p) ==
    /\ p \in Producers
    /\ pc[p] = "respond"
    /\ pc' = [pc EXCEPT ![p] = "idle"]
    /\ local' = [local EXCEPT ![p] = IdleLocal]
    /\ ledger' = [ledger EXCEPT ![local[p].task.tid].response = 200]
    /\ UNCHANGED <<queueVars, breakerVars, storeVars, now, fault_budget>>

\* -------------------------------------------------------- circuit breaker
\* check_circuit_breaker: the window since the last failure has passed.
BreakerExpired ==
    now - circuit_breaker_last_failure > CIRCUIT_BREAKER_TIMEOUT

\* check_circuit_breaker's return value.
BreakerOpenAboveThreshold ==
    ~BreakerExpired /\ circuit_breaker_failures > CIRCUIT_BREAKER_THRESHOLD
BreakerOpen ==
    ~BreakerExpired /\ circuit_breaker_failures >= CIRCUIT_BREAKER_THRESHOLD

\* check_circuit_breaker's effect: the counter is reset once the window passed.
CheckWithoutReset == UNCHANGED <<circuit_breaker_failures, circuit_breaker_last_failure>>
CheckCircuitBreaker ==
    /\ circuit_breaker_failures' =
           IF BreakerExpired THEN 0 ELSE circuit_breaker_failures
    /\ UNCHANGED circuit_breaker_last_failure

\* record_failure()
RecordFailureTwice ==
    /\ circuit_breaker_failures' = circuit_breaker_failures + 2
    /\ circuit_breaker_last_failure' = now
RecordFailure ==
    /\ circuit_breaker_failures' = circuit_breaker_failures + 1
    /\ circuit_breaker_last_failure' = now

\* record_success()
RecordSuccessResets ==
    /\ circuit_breaker_failures' = 0
    /\ UNCHANGED circuit_breaker_last_failure
RecordSuccess ==
    /\ circuit_breaker_failures' =
           IF circuit_breaker_failures > 0
           THEN circuit_breaker_failures - 1
           ELSE circuit_breaker_failures
    /\ UNCHANGED circuit_breaker_last_failure

\* The rest of the pipeline, which a call of a breaker function leaves alone.
pipelineVars == <<queueVars, storeVars, now, pc, local, fault_budget, ledger>>

\* GET /health: circuit_status = 'OPEN' if check_circuit_breaker() else
\* 'CLOSED'; the call has check_circuit_breaker's effect on the counter.
Health ==
    /\ CheckCircuitBreaker
    /\ last_call' = [op |-> "check", result |-> BreakerOpen,
                      failures |-> circuit_breaker_failures,
                      streak |-> last_call.streak]
    /\ UNCHANGED <<pipelineVars, lockVars>>

\* record_failure() reported for a task outside the modelled threads (the
\* other processor's tasks share the breaker).
CallRecordFailure ==
    /\ RecordFailure
    /\ last_call' = [op |-> "record_failure", result |-> FALSE,
                      failures |-> circuit_breaker_failures,
                      streak |-> IF circuit_breaker_failures = 0 THEN 1
                                 ELSE IF last_call.streak > 0
                                 THEN last_call.streak + 1
                                 ELSE 0]
    /\ UNCHANGED <<pipelineVars, lockVars>>

\* record_success() reported for a task outside the modelled threads.
CallRecordSuccess ==
    /\ RecordSuccess
    /\ last_call' = [op |-> "record_success", result |-> FALSE,
                      failures |-> circuit_breaker_failures,
                      streak |-> 0]
    /\ UNCHANGED <<pipelineVars, lockVars>>

\* The breaker's functions statement by statement, as the worker threads
\* execute them; a thread may be preempted between any two statements.
lockFrame == <<pipelineVars, last_call>>

\* A worker enters check_circuit_breaker, record_failure or record_success.
LockCall(w, op) ==
    /\ w \in Workers
    /\ caller[w].at = "idle"
    /\ caller' = [caller EXCEPT ![w] = [NotCalling EXCEPT !.op = op, !.at = "acquire"]]
    /\ sequential' = [sequential EXCEPT !.calls = @ + 1]
    /\ UNCHANGED <<circuit_breaker_failures, circuit_breaker_last_failure,
                   circuit_breaker_lock, lockFrame>>

\* with circuit_breaker_lock: -- entered by taking the lock without regard
\* to its holder.
LockAcquireUnguarded(w) ==
    /\ w \in Workers
    /\ caller[w].at = "acquire"
    /\ circuit_breaker_lock' = w
    /\ caller' = [caller EXCEPT ![w].at =
                      IF caller[w].op = "record_failure" THEN "load" ELSE "test"]
    /\ UNCHANGED <<circuit_breaker_failures, circuit_breaker_last_failure,
                   sequential, lockFrame>>

\* with circuit_breaker_lock: -- the thread waits until the lock is free.
LockAcquire(w) ==
    /\ w \in Workers
    /\ caller[w].at = "acquire"
    /\ circuit_breaker_lock = None
    /\ circuit_breaker_lock' = w
    /\ caller' = [caller EXCEPT ![w].at =
                      IF caller[w].op = "record_failure" THEN "load" ELSE "test"]
    /\ UNCHANGED <<circuit_breaker_failures, circuit_breaker_last_failure,
                   sequential, lockFrame>>

\* if time.time() - circuit_breaker_last_failure > CIRCUIT_BREAKER_TIMEOUT:
\* and if circuit_breaker_failures > 0: -- the condition of the function.
\* The whole call takes effect on `sequential` here when it reads the clock
\* here (check) or writes nothing (record_success at 0).
LockTest(w) ==
    /\ w \in Workers
    /\ caller[w].at = "test"
    /\ IF caller[w].op = "check"
       THEN LET expired == now - circuit_breaker_last_failure > CIRCUIT_BREAKER_TIMEOUT
                lapsed == now - sequential.last_failure > CIRCUIT_BREAKER_TIMEOUT
            IN  /\ caller' = [caller EXCEPT
                       ![w].at = IF expired THEN "reset" ELSE "read",
                       ![w].expected = ~lapsed /\ sequential.failures >=
                                                     CIRCUIT_BREAKER_THRESHOLD]
                /\ sequential' = [sequential EXCEPT
                       !.failures = IF lapsed THEN 0 ELSE @]
       ELSE /\ caller' = [caller EXCEPT ![w].at =
                       IF circuit_breaker_failures > 0 THEN "load" ELSE "release"]
            /\ sequential' = sequential
    /\ UNCHANGED <<circuit_breaker_failures, circuit_breaker_last_failure,
                   circuit_breaker_lock, lockFrame>>

\* circuit_breaker_failures = 0; return False
LockReset(w) ==
    /\ w \in Workers
    /\ caller[w].at = "reset"
    /\ circuit_breaker_failures' = 0
    /\ caller' = [caller EXCEPT ![w].result = FALSE, ![w].at = "release"]
    /\ UNCHANGED <<circuit_breaker_last_failure, circuit_breaker_lock, sequential,
                   lockFrame>>

\* return circuit_breaker_failures >= CIRCUIT_BREAKER_THRESHOLD
LockRead(w) ==
    /\ w \in Workers
    /\ caller[w].at = "read"
    /\ caller' = [caller EXCEPT
           ![w].result = circuit_breaker_failures >= CIRCUIT_BREAKER_THRESHOLD,
           ![w].at = "release"]
    /\ UNCHANGED <<circuit_breaker_failures, circuit_breaker_last_failure,
                   circuit_breaker_lock, sequential, lockFrame>>

\* circuit_breaker_failures += 1 and -= 1: the load of the global.
LockLoad(w) ==
    /\ w \in Workers
    /\ caller[w].at = "load"
    /\ caller' = [caller EXCEPT ![w].reg = circuit_breaker_failures, ![w].at = "store"]
    /\ UNCHANGED <<circuit_breaker_failures, circuit_breaker_last_failure,
                   circuit_breaker_lock, sequential, lockFrame>>

\* circuit_breaker_failures += 1 and -= 1: the store of the new value.
\* record_success takes effect on `sequential` here.
LockStore(w) ==
    /\ w \in Workers
    /\ caller[w].at = "store"
    /\ IF caller[w].op = "record_failure"
       THEN /\ circuit_breaker_failures' = caller[w].reg + 1
            /\ caller' = [caller EXCEPT ![w].at = "stamp"]
            /\ sequential' = sequential
       ELSE /\ circuit_breaker_failures' = caller[w].reg - 1
            /\ caller' = [caller EXCEPT ![w].at = "release"]
            /\ sequential' = [sequential EXCEPT
                   !.failures = IF @ > 0 THEN @ - 1 ELSE @]
    /\ UNCHANGED <<circuit_breaker_last_failure, circuit_breaker_lock, lockFrame>>

\* circuit_breaker_last_failure = time.time() -- record_failure reads the
\* clock here, and takes effect on `sequential` here.
LockStamp(w) ==
    /\ w \in Workers
    /\ caller[w].at = "stamp"
    /\ circuit_breaker_last_failure' = now
    /\ caller' = [caller EXCEPT ![w].at = "release"]
    /\ sequential' = [sequential EXCEPT !.failures = @ + 1, !.last_failure = now]
    /\ UNCHANGED <<circuit_breaker_failures, circuit_breaker_lock, lockFrame>>

\* The end of the with block: the lock is released and the call returns.
LockRelease(w) ==
    /\ w \in Workers
    /\ caller[w].at = "release"
    /\ circuit_breaker_lock' = None
    /\ caller' = [caller EXCEPT ![w].at = "idle"]
    /\ UNCHANGED <<circuit_breaker_failures, circuit_breaker_last_failure,
                   sequential, lockFrame>>

\* ------------------------------------------------------------- processing
\* process_webhook / process_lifecycle_update returns `success` on thread t.
Return(t, success, calls) ==
    /\ pc' = [pc EXCEPT ![t] = IF t \in Workers THEN "report" ELSE "respond"]
    /\ local' = [local EXCEPT ![t].success = success]
    /\ ledger' = Ledger(local[t].task.tid, calls,
                        IF success THEN "success" ELSE "failure")

\* A store call raises (timeout, unavailable).
Fault ==
    /\ fault_budget > 0
    /\ fault_budget' = fault_budget - 1

\* The message write of process_webhook: upsert by provider message id, or
\* insert under a generated ObjectId when the payload has none.
WriteMessage(doc) ==
    IF ~Falsy(doc._id)
    THEN /\ messages' = UpdateOneUpsert(messages, doc._id, doc)
         /\ oid' = oid
    ELSE /\ messages' = InsertOne(messages, [doc EXCEPT !._id = ObjectId(oid + 1)])
         /\ oid' = oid + 1

\* process_webhook up to and including the message write.
MessageWrite(t) ==
    LET task == local[t].task
        doc == MessageDoc(task.data, task.traffic_type, now)
    IN  /\ pc[t] = "message_write"
        /\ \/ /\ MissingIdentity(task.data)
              /\ Return(t, FALSE, 0)
              /\ UNCHANGED <<storeVars, fault_budget>>
           \/ /\ ~MissingIdentity(task.data)
              /\ WriteMessage(doc)
              /\ pc' = [pc EXCEPT ![t] = "conversation_read"]
              /\ ledger' = Ledger(task.tid, 1, "pending")
              /\ UNCHANGED <<conversations, contacts, local, fault_budget>>
           \/ /\ ~MissingIdentity(task.data)
              /\ Fault
              /\ Return(t, FALSE, 1)
              /\ UNCHANGED storeVars
        /\ UNCHANGED <<queueVars, breakerVars, now>>

\* update_conversation: ts_datetime and the find_one of the conversation.
\* An exception is logged by update_conversation and process_webhook
\* still returns True.
ConversationRead(t) ==
    LET task == local[t].task
    IN  /\ pc[t] = "conversation_read"
        /\ \/ /\ local' = [local EXCEPT
                     ![t].existing = FindOne(conversations, ChatId(task.data)),
                     ![t].ts_datetime = TsDatetime(Timestamp(task.data), now)]
              /\ pc' = [pc EXCEPT ![t] = "conversation_write"]
              /\ ledger' = Ledger(task.tid, 1, "pending")
              /\ UNCHANGED fault_budget
           \/ /\ Fault
              /\ Return(t, TRUE, 1)
        /\ UNCHANGED <<queueVars, breakerVars, storeVars, now>>

\* update_conversation: the update_one of the conversation read, or the
\* insert_one of a new one (a DuplicateKeyError is logged like any exception).
ConversationWrite(t) ==
    LET task == local[t].task
        data == task.data
        contact == Get(data, "contact", <<>>)
        channel == Get(data, "channel", <<>>)
        media_type == ExtractMediaType(Get(data, "message", <<>>))
        chat_id == ChatId(data)
        ts_datetime == local[t].ts_datetime
        conversation_doc ==
            ConversationDoc(chat_id, contact, channel, media_type, ts_datetime, now)
    IN  /\ pc[t] = "conversation_write"
        /\ \/ /\ local[t].existing # {}
              /\ \E existing \in local[t].existing :
                    conversations' = UpdateOneSet(conversations, chat_id,
                        UpdateDoc(existing, contact, channel, media_type,
                                  ts_datetime, now))
              /\ UNCHANGED fault_budget
           \/ /\ local[t].existing = {}
              /\ conversations' =
                    IF InsertRaises(conversations, conversation_doc)
                    THEN conversations
                    ELSE InsertOne(conversations, conversation_doc)
              /\ UNCHANGED fault_budget
           \/ /\ Fault
              /\ UNCHANGED conversations
        /\ Return(t, TRUE, 1)
        /\ UNCHANGED <<queueVars, breakerVars, messages, contacts, oid, now>>

\* process_lifecycle_update up to and including the contact upsert.
ContactWrite(t) ==
    LET task == local[t].task
        data == task.data
    IN  /\ pc[t] = "contact_write"
        /\ \/ /\ MissingIdentity(data)
              /\ Return(t, FALSE, 0)
              /\ UNCHANGED <<contacts, fault_budget>>
           \/ /\ ~MissingIdentity(data)
              /\ contacts' = UpsertContact(contacts, ContactDocId(data),
                                 ContactDoc(data, now), LifecycleChange(data, now))
              /\ pc' = [pc EXCEPT ![t] = "conversation_lifecycle"]
              /\ ledger' = Ledger(task.tid, 1, "pending")
              /\ UNCHANGED <<local, fault_budget>>
           \/ /\ ~MissingIdentity(data)
              /\ Fault
              /\ Return(t, FALSE, 1)
              /\ UNCHANGED contacts
        /\ UNCHANGED <<queueVars, breakerVars, messages, conversations, oid, now>>

\* process_lifecycle_update: the update of the conversation's lifecycle.
ConversationLifecycle(t) ==
    LET data == local[t].task.data
    IN  /\ pc[t] = "conversation_lifecycle"
        /\ \/ /\ conversations' = SetConversationLifecycle(conversations,
                      ChatId(data), Get(data, "lifecycle", None), now)
              /\ Return(t, TRUE, 1)
              /\ UNCHANGED fault_budget
           \/ /\ Fault
              /\ Return(t, FALSE, 1)
              /\ UNCHANGED conversations
        /\ UNCHANGED <<queueVars, breakerVars, messages, contacts, oid, now>>

\* ----------------------------------------------------------------- worker
\* task = webhook_queue.get()
WorkerGet(w) ==
    /\ w \in Workers
    /\ pc[w] = "get"
    /\ webhook_queue # <<>>
    /\ webhook_queue' = Tail(webhook_queue)
    /\ local' = [local EXCEPT ![w] = [IdleLocal EXCEPT !.task = Head(webhook_queue)]]
    /\ pc' = [pc EXCEPT ![w] = "check"]
    /\ UNCHANGED <<unfinished_tasks, breakerVars, storeVars, now, fault_budget, ledger>>

\* A worker that counts a skipped task as a failure.
WorkerCheckCountsSkip(w) ==
    LET task == local[w].task
    IN  /\ w \in Workers
        /\ pc[w] = "check"
        /\ IF BreakerOpen
           THEN /\ RecordFailure
                /\ unfinished_tasks' = unfinished_tasks - 1
                /\ pc' = [pc EXCEPT ![w] = "get"]
                /\ local' = [local EXCEPT ![w] = IdleLocal]
                /\ ledger' = Ledger(task.tid, 0, "skipped")
           ELSE /\ CheckCircuitBreaker
                /\ pc' = [pc EXCEPT ![w] = StartPc(task.webhook_type)]
                /\ UNCHANGED <<unfinished_tasks, local, ledger>>
        /\ UNCHANGED <<webhook_queue, storeVars, now, fault_budget, last_call, lockVars>>

\* if check_circuit_breaker(): task_done(); continue -- else process the task.
WorkerCheck(w) ==
    LET task == local[w].task
    IN  /\ w \in Workers
        /\ pc[w] = "check"
        /\ CheckCircuitBreaker
        /\ IF BreakerOpen
           THEN /\ unfinished_tasks' = unfinished_tasks - 1
                /\ pc' = [pc EXCEPT ![w] = "get"]
                /\ local' = [local EXCEPT ![w] = IdleLocal]
                /\ ledger' = Ledger(task.tid, 0, "skipped")
           ELSE /\ pc' = [pc EXCEPT ![w] = StartPc(task.webhook_type)]
                /\ UNCHANGED <<unfinished_tasks, local, ledger>>
        /\ UNCHANGED <<webhook_queue, storeVars, now, fault_budget, last_call, lockVars>>

\* A worker whose loop ends when a task has failed.
WorkerReportStopsOnFailure(w) ==
    /\ w \in Workers
    /\ pc[w] = "report"
    /\ IF local[w].success THEN RecordSuccess ELSE RecordFailure
    /\ unfinished_tasks' = unfinished_tasks - 1
    /\ pc' = [pc EXCEPT ![w] = IF local[w].success THEN "get" ELSE "stopped"]
    /\ local' = [local EXCEPT ![w] = IdleLocal]
    /\ UNCHANGED <<webhook_queue, storeVars, now, fault_budget, ledger, last_call, lockVars>>

\* A worker that reports to the breaker only the failures of store calls.
WorkerReportStoreFailuresOnly(w) ==
    /\ w \in Workers
    /\ pc[w] = "report"
    /\ IF local[w].success THEN RecordSuccess
       ELSE IF ledger[local[w].task.tid].store_calls > 0 THEN RecordFailure
       ELSE UNCHANGED <<circuit_breaker_failures, circuit_breaker_last_failure>>
    /\ unfinished_tasks' = unfinished_tasks - 1
    /\ pc' = [pc EXCEPT ![w] = "get"]
    /\ local' = [local EXCEPT ![w] = IdleLocal]
    /\ UNCHANGED <<webhook_queue, storeVars, now, fault_budget, ledger, last_call, lockVars>>

\* record_success() or record_failure(), then webhook_queue.task_done().
WorkerReport(w) ==
    /\ w \in Workers
    /\ pc[w] = "report"
    /\ IF local[w].success THEN RecordSuccess ELSE RecordFailure
    /\ unfinished_tasks' = unfinished_tasks - 1
    /\ pc' = [pc EXCEPT ![w] = "get"]
    /\ local' = [local EXCEPT ![w] = IdleLocal]
    /\ UNCHANGED <<webhook_queue, storeVars, now, fault_budget, ledger, last_call, lockVars>>

\* ------------------------------------------------------------------ clock
Tick ==
    /\ now' = now + 1
    /\ UNCHANGED <<queueVars, breakerVars, storeVars, pc, local, fault_budget, ledger>>

\* --------------------------------------------------------- specifications
\* A step of the processing of a task, on a worker or inline on a producer.
Process(t) ==
    \/ MessageWrite(t)
    \/ ConversationRead(t)
    \/ ConversationWrite(t)
    \/ ContactWrite(t)
    \/ ConversationLifecycle(t)

\* The pipeline: concurrent producers and workers, a store that may fail.
IncomingInputs == {MsgText, MsgAnonymous, NoData}
OutgoingInputs == {MsgEcho}
LifecycleInputs == {LifecycleAnn, MsgText}

Next ==
    \/ /\ Len(ledger) < MaxSubmits
       /\ \E p \in Producers :
             \/ \E data \in IncomingInputs : FasterIncoming(p, data)
             \/ \E data \in OutgoingInputs : FasterOutgoing(p, data)
             \/ \E data \in LifecycleInputs : FasterLifecycle(p, data)
    \/ \E p \in Producers : Respond(p)
    \/ \E w \in Workers : WorkerGet(w)
    \/ \E w \in Workers : WorkerCheck(w)
    \/ \E w \in Workers : WorkerReport(w)
    \/ \E t \in Threads : Process(t)
    \/ now < StartTime + MaxTicks /\ Tick

Spec == Init /\ [][Next]_vars

\* The store never fails.
InitReliable ==
    /\ webhook_queue = <<>>
    /\ unfinished_tasks = 0
    /\ circuit_breaker_failures = 0
    /\ circuit_breaker_last_failure = 0
    /\ messages = {}
    /\ conversations = {}
    /\ contacts = {}
    /\ now = StartTime
    /\ pc = [t \in Threads |-> IF t \in Workers THEN "get" ELSE "idle"]
    /\ local = [t \in Threads |-> IdleLocal]
    /\ oid = 0
    /\ fault_budget = 0
    /\ ledger = <<>>
    /\ last_call = NoCall
    /\ circuit_breaker_lock = None
    /\ caller = [w \in Workers |-> NotCalling]
    /\ sequential = NoCalls

\* No thread is processing a task.
Quiet == \A t \in Threads : pc[t] \in {"get", "idle"}

\* Serial processing: a task is submitted or taken only while no other task
\* is being processed; the store never fails.
SerialIncoming == {MsgText, MsgImage, MsgNoId}
SerialLifecycle == {LifecycleAnn}

NextSerial ==
    \/ /\ Quiet
       /\ Len(ledger) < MaxSerialSubmits
       /\ \E p \in Producers :
             \/ \E data \in SerialIncoming : FasterIncoming(p, data)
             \/ \E data \in SerialLifecycle : FasterLifecycle(p, data)
    \/ \E p \in Producers : Respond(p)
    \/ Quiet /\ \E w \in Workers : WorkerGet(w)
    \/ \E w \in Workers : WorkerCheck(w)
    \/ \E w \in Workers : WorkerReport(w)
    \/ \E t \in Threads : Process(t)
    \/ now < StartTime + MaxTicks /\ Tick

SpecSerial == InitReliable /\ [][NextSerial]_vars

\* Concurrent processing of events of one conversation; the store never
\* fails and the clock stands still.
RaceIncoming == {MsgText, MsgImage}
RaceLifecycle == {LifecycleAnn}

NextRace ==
    \/ /\ Len(ledger) < MaxRaceSubmits
       /\ \E p \in Producers :
             \/ \E data \in RaceIncoming : FasterIncoming(p, data)
             \/ \E data \in RaceLifecycle : FasterLifecycle(p, data)
    \/ \E p \in Producers : Respond(p)
    \/ \E w \in Workers : WorkerGet(w)
    \/ \E w \in Workers : WorkerCheck(w)
    \/ \E w \in Workers : WorkerReport(w)
    \/ \E t \in Threads : Process(t)

SpecRace == InitReliable /\ [][NextRace]_vars

\* The pipeline under fair scheduling: every worker thread keeps running its
\* loop and every inline call returns (each store call returns or times
\* out); requests arrive at will, and the clock stands still.
LiveIncoming == {MsgText, MsgAnonymous}
LiveLifecycle == {LifecycleAnn}

NextLive ==
    \/ /\ Len(ledger) < MaxLiveSubmits
       /\ \E p \in Producers :
             \/ \E data \in LiveIncoming : FasterIncoming(p, data)
             \/ \E data \in LiveLifecycle : FasterLifecycle(p, data)
    \/ \E p \in Producers : Respond(p)
    \/ \E w \in Workers : WorkerGet(w)
    \/ \E w \in Workers : WorkerCheck(w)
    \/ \E w \in Workers : WorkerReport(w)
    \/ \E t \in Threads : Process(t)

Fairness ==
    /\ \A w \in Workers :
          WF_vars(WorkerGet(w) \/ WorkerCheck(w) \/ WorkerReport(w) \/ Process(w))
    /\ \A p \in Producers : WF_vars(Process(p) \/ Respond(p))

SpecLive == Init /\ [][NextLive]_vars /\ Fairness

\* Concurrent processing of lifecycle events of one contact, next to a
\* message event of the same key; store calls may fail, the clock stands
\* still.
ContactsIncoming == {MsgText}
ContactsLifecycle == {LifecycleAnn, LifecycleBack}

NextContacts ==
    \/ /\ Len(ledger) < MaxContactSubmits
       /\ \E p \in Producers :
             \/ \E data \in ContactsIncoming : FasterIncoming(p, data)
             \/ \E data \in ContactsLifecycle : FasterLifecycle(p, data)
    \/ \E p \in Producers : Respond(p)
    \/ \E w \in Workers : WorkerGet(w)
    \/ \E w \in Workers : WorkerCheck(w)
    \/ \E w \in Workers : WorkerReport(w)
    \/ \E t \in Threads : Process(t)

SpecContacts == Init /\ [][NextContacts]_vars

\* The breaker alone: its three functions called in any order while the
\* clock advances.  Failures stop early enough for the window to run out
\* within the ticks of one behaviour; time never stops.
NextBreaker ==
    \/ /\ circuit_breaker_failures < MaxFailures
       /\ now + CIRCUIT_BREAKER_TIMEOUT < StartTime + MaxBreakerTicks
       /\ CallRecordFailure
    \/ CallRecordSuccess
    \/ Health
    \/ now < StartTime + MaxBreakerTicks /\ Tick

SpecBreaker == InitReliable /\ [][NextBreaker]_vars /\ WF_vars(Tick)

\* Events that identify their contact by phone, by id, or not at all,
\* processed concurrently; the store never fails and the clock stands still.
IdentityIncoming == {MsgText, MsgNoId, MsgAnonymous}
IdentityLifecycle == {LifecyclePhoneOnly, LifecycleOtherPhone, LifecycleAnonymous}

NextIdentity ==
    \/ /\ Len(ledger) < MaxIdentitySubmits
       /\ \E p \in Producers :
             \/ \E data \in IdentityIncoming : FasterIncoming(p, data)
             \/ \E data \in IdentityLifecycle : FasterLifecycle(p, data)
    \/ \E p \in Producers : Respond(p)
    \/ \E w \in Workers : WorkerGet(w)
    \/ \E w \in Workers : WorkerCheck(w)
    \/ \E w \in Workers : WorkerReport(w)
    \/ \E t \in Threads : Process(t)

SpecIdentity == InitReliable /\ [][NextIdentity]_vars

\* Enough requests for the breaker to open and the queue to be full at the
\* same time; store calls may fail, the clock stands still.
InlineIncoming == {MsgText, MsgAnonymous}
InlineLifecycle == {LifecycleAnn}

NextInline ==
    \/ /\ Len(ledger) < MaxInlineSubmits
       /\ \E p \in Producers :
             \/ \E data \in InlineIncoming : FasterIncoming(p, data)
             \/ \E data \in InlineLifecycle : FasterLifecycle(p, data)
    \/ \E p \in Producers : Respond(p)
    \/ \E w \in Workers : WorkerGet(w)
    \/ \E w \in Workers : WorkerCheck(w)
    \/ \E w \in Workers : WorkerReport(w)
    \/ \E t \in Threads : Process(t)

SpecInline == Init /\ [][NextInline]_vars

\* The breaker's functions called by the worker threads concurrently, each
\* executed statement by statement, while the clock advances.
BreakerOps == {"check", "record_failure", "record_success"}

NextLock ==
    \/ /\ sequential.calls < MaxLockCalls
       /\ \E w \in Workers : \E op \in BreakerOps : LockCall(w, op)
    \/ \E w \in Workers : LockAcquire(w)
    \/ \E w \in Workers : LockTest(w)
    \/ \E w \in Workers : LockReset(w)
    \/ \E w \in Workers : LockRead(w)
    \/ \E w \in Workers : LockLoad(w)
    \/ \E w \in Workers : LockStore(w)
    \/ \E w \in Workers : LockStamp(w)
    \/ \E w \in Workers : LockRelease(w)
    \/ now < StartTime + MaxLockTicks /\ Tick

SpecLock == InitReliable /\ [][NextLock]_vars

\* ----------------------------------------------------------------- claims
\* The gateway handed the task to submit: a payload was sent and, on the
\* lifecycle endpoint, the event type is the one the route accepts.
Submitted(task) ==
    /\ DOMAIN task.data # {}
    /\ task.webhook_type = "lifecycle" =>
           Get(task.data, "event_type", None) = "contact.lifecycle.updated"

\* Thread t holds the task.
Holds(t, task) == local[t].task = task

\* The processing of ledger entry e has returned (or was skipped).
Finished(e) == e.outcome # "pending"

\* C1, the step: a submit of a non-empty payload appends the task to the
\* queue and touches no store when the queue has room, and when the queue is
\* at capacity leaves the queue unchanged and starts the processing on the
\* producer's own thread.
C1_SubmitStep ==
    LET n == Len(ledger)
    IN  (Len(ledger') = n + 1 /\ Submitted(ledger'[n + 1].task)) =>
            LET task == ledger'[n + 1].task
            IN  IF Len(webhook_queue) < QUEUE_MAXSIZE
                THEN /\ webhook_queue' = Append(webhook_queue, task)
                     /\ UNCHANGED <<storeVars, pc, local>>
                     /\ ledger'[n + 1].response = 200
                ELSE /\ webhook_queue' = webhook_queue
                     /\ \E p \in Producers :
                           /\ local'[p].task = task
                           /\ pc'[p] \in {"message_write", "contact_write"}

\* C1, the task is never dropped: it waits in the queue, is held by a
\* thread, or its processing has finished.
C1_NotDropped ==
    \A i \in 1..Len(ledger) :
        Submitted(ledger[i].task) =>
            \/ \E k \in 1..Len(webhook_queue) : webhook_queue[k] = ledger[i].task
            \/ \E t \in Threads : Holds(t, ledger[i].task)
            \/ Finished(ledger[i])

\* C1, the acknowledgment: a queued task is answered 200 at once; an inline
\* task is answered 200 once its processing has returned, whether it
\* succeeded or failed, and not before.
C1_Acknowledged ==
    \A i \in 1..Len(ledger) :
        LET e == ledger[i]
        IN  Submitted(e.task) =>
                /\ e.mode \in {"queued", "inline"}
                /\ e.mode = "queued" => e.response = 200
                /\ e.mode = "inline" =>
                      /\ e.response \in {0, 200}
                      /\ e.response = 200 => e.outcome \in {"success", "failure"}
                      /\ (\A p \in Producers : ~Holds(p, e.task)) => e.response = 200

\* C1: submit never fails the caller: it enqueues when the queue has room,
\* processes inline when the queue is full, never drops the task and always
\* answers with the success acknowledgment.
C1_SubmitEnqueuesOrProcessesInline ==
    /\ [][C1_SubmitStep]_vars
    /\ [](C1_NotDropped /\ C1_Acknowledged)

\* C1 witness: a task was processed inline with store calls made, failed,
\* and was answered 200; another was queued.
C1_Witness ==
    \E i, j \in 1..Len(ledger) :
        /\ ledger[i].mode = "inline"
        /\ ledger[i].store_calls >= 1
        /\ ledger[i].outcome = "failure"
        /\ ledger[i].response = 200
        /\ ledger[j].mode = "queued"

C3_WriteStep ==
    \A t \in Threads :
        (pc[t] = "message_write" /\ pc'[t] = "conversation_read") =>
            LET task == local[t].task
                doc == MessageDoc(task.data, task.traffic_type, now)
            IN  ~Falsy(doc._id) =>
                    /\ Cardinality(FindOne(messages', doc._id)) = 1
                    /\ \A d \in FindOne(messages', doc._id) :
                          \A k \in DOMAIN doc : d[k] = doc[k]

\* C3, the state: no two records of the message log share an id.
C3_UniqueIds ==
    \A d1, d2 \in messages : d1._id = d2._id => d1 = d2

\* C3: processing a payload with a provider message id any number of times,
\* in any interleaving, leaves exactly one record with that id, carrying
\* the fields of the last write.
C3_MessageUpsertIdempotent ==
    /\ [][C3_WriteStep]_vars
    /\ []C3_UniqueIds

\* C3 witness: the same payload was written twice, at different times, and
\* the log holds one record with its id.
C3_Witness ==
    \E i, j \in 1..Len(ledger) :
        /\ i < j
        /\ ledger[i].task.data = ledger[j].task.data
        /\ ledger[i].task.webhook_type = "message"
        /\ ledger[i].task.traffic_type = ledger[j].task.traffic_type
        /\ ledger[i].outcome = "success"
        /\ ledger[j].outcome = "success"
        /\ ledger[i].store_calls = 3
        /\ ledger[j].store_calls = 3
        /\ Cardinality(FindOne(messages, "m1")) = 1
        /\ \E d \in messages : d._id = "m1" /\ d.created_at.sec > StartTime

\* Conversation key and media type of a ledger entry's event.
KeyOf(e) == ChatId(e.task.data)
MediaOf(e) == ExtractMediaType(Get(e.task.data, "message", <<>>))
MessageIdOf(e) == Get(Get(e.task.data, "message", <<>>), "messageId", None)

\* Conversation keys of the events received so far.
Keys == {KeyOf(ledger[i]) : i \in 1..Len(ledger)}

\* The message events of key k whose processing has returned success.
Folded(k) ==
    {i \in 1..Len(ledger) :
        /\ ledger[i].task.webhook_type = "message"
        /\ ledger[i].outcome = "success"
        /\ KeyOf(ledger[i]) = k}

\* media_counts of a conversation that has folded in one event of media type m.
CountsOfOne(m) == IF ~Falsy(m) THEN m :> 1 ELSE <<>>

\* C4: processing the same message payload (same provider message id, same
\* conversation key) twice leaves message_count and media_counts as they
\* are after processing it once.
C4_DuplicateDeliveryKeepsCounts ==
    \A i, j \in 1..Len(ledger) :
        LET e == ledger[i]
        IN  (/\ i < j
             /\ e.task.data = ledger[j].task.data
             /\ ~Falsy(MessageIdOf(e))
             /\ i \in Folded(KeyOf(e))
             /\ j \in Folded(KeyOf(e))
             /\ \A m \in Folded(KeyOf(e)) : ledger[m].task.data = e.task.data)
            => \E d \in conversations :
                  /\ d._id = KeyOf(e)
                  /\ d.message_count = 1
                  /\ d.media_counts = CountsOfOne(MediaOf(e))

\* C5: after N >= 1 message events of one conversation key processed one
\* after another, message_count = N and the media counts sum to the number
\* of those events with a non-null media type; with N = 0 there is no
\* conversation.
C5_SerialCounts ==
    \A k \in Keys :
        IF Folded(k) = {}
        THEN FindOne(conversations, k) = {}
        ELSE \E d \in conversations :
                /\ d._id = k
                /\ d.message_count = Cardinality(Folded(k))
                /\ SumCounts(d.media_counts) =
                       Cardinality({i \in Folded(k) : ~Falsy(MediaOf(ledger[i]))})

\* C5 witness: three events of one key were processed, one queued and one
\* inline among them, exactly one carrying a media type.
C5_Witness ==
    \E d \in conversations :
        /\ d.message_count = 3
        /\ Cardinality(Folded(d._id)) = 3
        /\ SumCounts(d.media_counts) = 1
        /\ \E i, j \in Folded(d._id) :
              ledger[i].mode = "queued" /\ ledger[j].mode = "inline"

\* C6: in every state, under any interleaving, message_count of a
\* conversation equals the number of message events of its key whose
\* processing has completed successfully.
C6_CountEqualsCompleted ==
    \A k \in Keys :
        /\ Folded(k) # {} => FindOne(conversations, k) # {}
        /\ \A d \in FindOne(conversations, k) :
              d.message_count = Cardinality(Folded(k))

\* C7: in every state of every conversation, under any interleaving, the
\* media counts sum to at most message_count.
C7_MediaSumAtMostCount ==
    \A d \in conversations : SumCounts(d.media_counts) <= d.message_count

\* Thread t takes the conversation write of a message event in this step.
MessageConversationWrite(t) ==
    pc[t] = "conversation_write" /\ pc'[t] # "conversation_write"

\* The conversation's lifecycle value is the same after the step.
LifecycleKept(d) ==
    \E d2 \in conversations' :
        /\ d2._id = d._id
        /\ "lifecycle" \in DOMAIN d2.contact
        /\ d2.contact.lifecycle = d.contact.lifecycle

\* C8: once a lifecycle event has set the lifecycle of a conversation, no
\* write of message processing changes or removes it, in any interleaving.
C8_MessageWriteKeepsLifecycle ==
    [][\A t \in Threads :
          MessageConversationWrite(t) =>
              \A d \in conversations :
                  "lifecycle" \in DOMAIN d.contact => LifecycleKept(d)]_vars

\* C9: serially, a message event processed after a lifecycle event of the
\* same key leaves the lifecycle value in place, whatever its contact
\* snapshot holds, and overwrites the other contact fields by the snapshot.
C9_SerialMessageKeepsLifecycle ==
    [][\A t \in Threads :
          MessageConversationWrite(t) =>
              \A d \in FindOne(conversations, ChatId(local[t].task.data)) :
                  LET contact == Get(local[t].task.data, "contact", <<>>)
                  IN  /\ "lifecycle" \in DOMAIN d.contact => LifecycleKept(d)
                      /\ \A d2 \in FindOne(conversations', d._id) :
                            /\ \A k \in ContactKeys :
                                  d2.contact[k] = Get(contact, k, None)
                            /\ DOMAIN d2.contact \subseteq
                                   ContactKeys \cup (DOMAIN d.contact \cap {"lifecycle"})
      ]_vars

\* C9 witness: a message event whose snapshot carries another first name and
\* a lifecycle key of its own was folded into a conversation that had the
\* lifecycle "customer", which is still there.
C9_Witness ==
    \E t \in Threads :
        /\ pc[t] \in {"report", "respond"}
        /\ local[t].task.webhook_type = "message"
        /\ "lifecycle" \in DOMAIN Get(local[t].task.data, "contact", <<>>)
        /\ \E old \in local[t].existing :
              /\ "lifecycle" \in DOMAIN old.contact
              /\ old.contact.lifecycle = "customer"
              /\ old.contact.firstName = "Ann"
        /\ \E d \in FindOne(conversations, ChatId(local[t].task.data)) :
              /\ d.contact.lifecycle = "customer"
              /\ d.contact.firstName = "Anna"

\* C10: a lifecycle event applied to an existing conversation sets
\* contact.lifecycle to the event's value and updated_at to now and changes
\* no other field of it, nor any other conversation.
C10_LifecycleUpdateFrame ==
    [][\A t \in Threads :
          (pc[t] = "conversation_lifecycle" /\ pc'[t] # "conversation_lifecycle"
           /\ local'[t].success) =>
              LET data == local[t].task.data
              IN  /\ Cardinality(conversations') = Cardinality(conversations)
                  /\ \A d \in conversations :
                        \E d2 \in conversations' :
                            /\ d2._id = d._id
                            /\ IF d._id = ChatId(data)
                               THEN /\ DOMAIN d2 = DOMAIN d
                                    /\ \A k \in DOMAIN d \ {"updated_at", "contact"} :
                                          d2[k] = d[k]
                                    /\ d2.updated_at = DatetimeNow(now)
                                    /\ DOMAIN d2.contact =
                                           DOMAIN d.contact \cup {"lifecycle"}
                                    /\ \A k \in DOMAIN d.contact \ {"lifecycle"} :
                                          d2.contact[k] = d.contact[k]
                                    /\ d2.contact.lifecycle =
                                           Get(data, "lifecycle", None)
                               ELSE d2 = d
      ]_vars

\* C10 witness: a lifecycle event has just updated an existing conversation
\* that had folded in two events, one with a media type and an assignee,
\* at a later time than its creation.
C10_Witness ==
    \E t \in Threads :
        /\ pc[t] \in {"report", "respond"}
        /\ local[t].task.webhook_type = "lifecycle"
        /\ local[t].success
        /\ \E d \in FindOne(conversations, ChatId(local[t].task.data)) :
              /\ d.contact.lifecycle = local[t].task.data.lifecycle
              /\ d.message_count = 2
              /\ SumCounts(d.media_counts) = 1
              /\ "assignee" \in DOMAIN d
              /\ d.updated_at.sec > d.created_at.sec

\* Thread t takes the contact upsert of a lifecycle event in this step.
ContactUpsertStep(t) ==
    pc[t] = "contact_write" /\ pc'[t] = "conversation_lifecycle"

\* Thread t takes the conversation update of a lifecycle event in this step.
ConversationLifecycleStep(t) ==
    pc[t] = "conversation_lifecycle" /\ pc'[t] # "conversation_lifecycle"

\* lifecycle_history of the contact record id in collection coll.
HistoryOf(coll, id) ==
    IF FindOne(coll, id) = {} THEN <<>>
    ELSE (CHOOSE d \in FindOne(coll, id) : TRUE).lifecycle_history

\* C11, the steps: the contact upsert of a lifecycle event appends exactly
\* one entry {from: oldLifecycle, to: lifecycle} to the contact's history;
\* its conversation update, when the key has no conversation, leaves the
\* conversations as they are and the event returns success; a worker
\* reporting a success does not raise the failure count.
C11_Steps ==
    \A t \in Threads :
        LET data == local[t].task.data
            before == HistoryOf(contacts, ContactDocId(data))
            after == HistoryOf(contacts', ContactDocId(data))
        IN  /\ ContactUpsertStep(t) =>
                /\ Len(after) = Len(before) + 1
                /\ SubSeq(after, 1, Len(before)) = before
                /\ after[Len(after)].from = Get(data, "oldLifecycle", None)
                /\ after[Len(after)].to = Get(data, "lifecycle", None)
                /\ conversations' = conversations
            /\ (/\ ConversationLifecycleStep(t)
                /\ FindOne(conversations, ChatId(data)) = {}
                /\ fault_budget' = fault_budget) =>
                /\ conversations' = conversations
                /\ local'[t].success
            /\ (pc[t] = "report" /\ pc'[t] = "get" /\ local[t].success) =>
                /\ circuit_breaker_failures' <= circuit_breaker_failures
                /\ circuit_breaker_last_failure' = circuit_breaker_last_failure

\* C11: a lifecycle event for a contact whose key has no conversation
\* appends one history entry {from, to}, creates no conversation and
\* completes as a success.
C11_LifecycleWithoutConversation ==
    /\ [][C11_Steps]_vars
    /\ [](\A i \in 1..Len(ledger) :
            (/\ ledger[i].task.webhook_type = "lifecycle"
             /\ Finished(ledger[i])
             /\ ~MissingIdentity(ledger[i].task.data))
            => ledger[i].outcome = "success")

\* C11 witness: the event lead -> customer of contact c1 was queued,
\* processed and reported; the contact's history is that one entry and
\* there is no conversation at all.
C11_Witness ==
    /\ Len(ledger) = 1
    /\ ledger[1].task.data = LifecycleAnn
    /\ ledger[1].mode = "queued"
    /\ ledger[1].outcome = "success"
    /\ ledger[1].store_calls = 2
    /\ \A t \in Threads : ~Holds(t, ledger[1].task)
    /\ circuit_breaker_failures = 0
    /\ conversations = {}
    /\ Len(HistoryOf(contacts, "c1")) = 1
    /\ HistoryOf(contacts, "c1")[1].from = "lead"
    /\ HistoryOf(contacts, "c1")[1].to = "customer"

\* C12, the step: every contact record stays, and its history after the
\* step is its history before the step, possibly with entries appended.
C12_AppendOnly ==
    \A d \in contacts :
        \E d2 \in FindOne(contacts', d._id) :
            /\ Len(d2.lifecycle_history) >= Len(d.lifecycle_history)
            /\ SubSeq(d2.lifecycle_history, 1, Len(d.lifecycle_history))
                   = d.lifecycle_history

\* C12, the state: the lifecycle field of a contact record is the `to`
\* value of the last entry of its history.
C12_LifecycleIsLastTo ==
    \A d \in contacts :
        /\ Len(d.lifecycle_history) >= 1
        /\ d.lifecycle = d.lifecycle_history[Len(d.lifecycle_history)].to

\* C12: under any interleaving of lifecycle events of a contact, its
\* history only grows at the end and its lifecycle field equals the `to`
\* value of the last history entry.
C12_HistoryAppendOnly ==
    /\ [][C12_AppendOnly]_vars
    /\ []C12_LifecycleIsLastTo

\* C12 witness: two threads have written different lifecycle events of
\* contact c1 and are both still processing them; the history holds both.
C12_Witness ==
    \E t1, t2 \in Threads :
        /\ t1 # t2
        /\ pc[t1] = "conversation_lifecycle"
        /\ pc[t2] = "conversation_lifecycle"
        /\ local[t1].task.data # local[t2].task.data
        /\ Len(HistoryOf(contacts, "c1")) = 2
        /\ HistoryOf(contacts, "c1")[1].to # HistoryOf(contacts, "c1")[2].to

\* The lifecycle events of contact record id whose processing has returned
\* success.
Applied(id) ==
    {i \in 1..Len(ledger) :
        /\ ledger[i].task.webhook_type = "lifecycle"
        /\ ledger[i].outcome = "success"
        /\ ContactDocId(ledger[i].task.data) = id}

\* C13: processing the same lifecycle event twice leaves the contact
\* record, history included, as it is after processing it once: one
\* history entry, the event's transition.
C13_DuplicateLifecycleKeepsHistory ==
    \A i, j \in 1..Len(ledger) :
        LET e == ledger[i]
            id == ContactDocId(e.task.data)
        IN  (/\ i < j
             /\ i \in Applied(id)
             /\ j \in Applied(id)
             /\ \A m \in Applied(id) : ledger[m].task.data = e.task.data)
            => /\ Len(HistoryOf(contacts, id)) = 1
               /\ HistoryOf(contacts, id)[1].to = Get(e.task.data, "lifecycle", None)

\* a <= b on datetime values.
DtLeq(a, b) == a.sec < b.sec \/ (a.sec = b.sec /\ a.ms <= b.ms)

\* C14: last_message_ts of a conversation is the maximum timestamp among
\* the message events applied to it so far, in whatever order they were
\* processed (stated for the events that carry a timestamp): it is the
\* timestamp of one of them and none has a later one.
C14_LastMessageTsIsMax ==
    \A d \in conversations :
        LET stamped == {i \in Folded(d._id) : Timestamp(ledger[i].task.data) # 0}
        IN  (stamped = Folded(d._id) /\ stamped # {}) =>
                /\ \E i \in stamped :
                      d.last_message_ts = FromTimestamp(Timestamp(ledger[i].task.data))
                /\ \A i \in stamped :
                      DtLeq(FromTimestamp(Timestamp(ledger[i].task.data)),
                            d.last_message_ts)

\* A call of the named breaker function is made in this step (time stands
\* still during a call).
Called(op) == last_call'.op = op /\ now' = now

\* No more than W seconds have passed since the last recorded failure.
WithinWindow == now - circuit_breaker_last_failure <= CIRCUIT_BREAKER_TIMEOUT

\* C15, the steps: recordFailure() raises F by one and sets T = now; a call
\* of isOpen() within the window returns true iff F >= K and leaves F.
C15_Steps ==
    /\ Called("record_failure") =>
           /\ circuit_breaker_failures' = circuit_breaker_failures + 1
           /\ circuit_breaker_last_failure' = now
    /\ (Called("check") /\ WithinWindow) =>
           /\ last_call'.result =
                  (circuit_breaker_failures >= CIRCUIT_BREAKER_THRESHOLD)
           /\ circuit_breaker_failures' = circuit_breaker_failures
           /\ last_call.streak = CIRCUIT_BREAKER_THRESHOLD => last_call'.result
           /\ last_call.streak \in 1..(CIRCUIT_BREAKER_THRESHOLD - 1) =>
                  ~last_call'.result

\* C15: within the window isOpen() returns true if and only if F >= K, and
\* each recordFailure() adds one to F: K calls from 0 open the breaker,
\* fewer do not.
C15_OpenIffThresholdReached == [][C15_Steps]_vars

\* C15 witness: isOpen() has just returned true with exactly K failures
\* counted, the last of them recorded within the window.
C15_Witness ==
    /\ last_call.op = "check"
    /\ last_call.result
    /\ last_call.failures = CIRCUIT_BREAKER_THRESHOLD
    /\ last_call.streak = CIRCUIT_BREAKER_THRESHOLD
    /\ circuit_breaker_failures = CIRCUIT_BREAKER_THRESHOLD
    /\ circuit_breaker_last_failure >= StartTime
    /\ WithinWindow

\* C16, the steps: recordSuccess() lowers F by one when F > 0, leaves it
\* at 0 otherwise and leaves T; an isOpen() within the window that returns
\* false found F below K.
C16_Steps ==
    /\ Called("record_success") =>
           /\ circuit_breaker_failures' =
                  IF circuit_breaker_failures > 0
                  THEN circuit_breaker_failures - 1 ELSE 0
           /\ circuit_breaker_last_failure' = circuit_breaker_last_failure
    /\ (Called("check") /\ WithinWindow /\ ~last_call'.result) =>
           circuit_breaker_failures < CIRCUIT_BREAKER_THRESHOLD

\* C16: recordSuccess() lowers F by exactly 1 when positive, never below
\* 0, and does not touch T; F is never negative; after it isOpen() is
\* false within the window only when F is below K.
C16_SuccessLowersByOne ==
    /\ [][C16_Steps]_vars
    /\ [](circuit_breaker_failures >= 0)

\* C16 witness: a recordSuccess() found K + 1 failures and left K, within
\* the window: the breaker is still open after it.
C16_Witness ==
    /\ last_call.op = "record_success"
    /\ last_call.failures = CIRCUIT_BREAKER_THRESHOLD + 1
    /\ circuit_breaker_failures = CIRCUIT_BREAKER_THRESHOLD
    /\ WithinWindow

\* C17, the steps: isOpen() called more than W seconds after the last
\* failure returns false and sets F to 0; while the window lasts and no
\* success is recorded, F >= K stays.
C17_Steps ==
    /\ (Called("check") /\ ~WithinWindow) =>
           /\ ~last_call'.result
           /\ circuit_breaker_failures' = 0
    /\ (/\ circuit_breaker_failures >= CIRCUIT_BREAKER_THRESHOLD
        /\ WithinWindow
        /\ ~Called("record_success")
        /\ now' - circuit_breaker_last_failure' <= CIRCUIT_BREAKER_TIMEOUT) =>
           circuit_breaker_failures' >= CIRCUIT_BREAKER_THRESHOLD

\* C17: a call of isOpen() after the window returns false and resets F,
\* whatever F was; an open breaker stays open while the window lasts and
\* no success is recorded, and once failures stop the window runs out.
C17_TimeBasedRecovery ==
    /\ [][C17_Steps]_vars
    /\ (circuit_breaker_failures >= CIRCUIT_BREAKER_THRESHOLD /\ WithinWindow)
           ~> ~WithinWindow

\* C17 witness: isOpen() was called after the window of a recorded failure
\* had passed, found more than K failures, returned false and reset F.
C17_Witness ==
    /\ last_call.op = "check"
    /\ ~last_call.result
    /\ last_call.failures > CIRCUIT_BREAKER_THRESHOLD
    /\ circuit_breaker_failures = 0
    /\ circuit_breaker_last_failure >= StartTime
    /\ ~WithinWindow

\* C18, the step: a worker whose check finds the breaker open (F >= K
\* within the window) makes no store call, records nothing with the
\* breaker, marks the task consumed and does not put it back.
C18_Step ==
    \A w \in Workers :
        (/\ pc[w] = "check" /\ pc'[w] # "check"
         /\ circuit_breaker_failures >= CIRCUIT_BREAKER_THRESHOLD
         /\ WithinWindow) =>
            LET tid == local[w].task.tid
            IN  /\ UNCHANGED storeVars
                /\ circuit_breaker_failures' = circuit_breaker_failures
                /\ circuit_breaker_last_failure' = circuit_breaker_last_failure
                /\ webhook_queue' = webhook_queue
                /\ unfinished_tasks' = unfinished_tasks - 1
                /\ pc'[w] = "get"
                /\ \A t \in Threads : local'[t].task.tid # tid
                /\ ledger'[tid].outcome = "skipped"
                /\ ledger'[tid].store_calls = 0

\* C18, the state: a skipped task has had no store call, is not in the
\* queue and is held by no thread.
C18_SkippedStaysConsumed ==
    \A i \in 1..Len(ledger) :
        ledger[i].outcome = "skipped" =>
            /\ ledger[i].store_calls = 0
            /\ \A k \in 1..Len(webhook_queue) : webhook_queue[k].tid # i
            /\ \A t \in Threads : ~Holds(t, ledger[i].task)

\* C18: when a worker takes a task and the breaker reports open, it
\* performs no store operation for it, records neither success nor
\* failure, marks it consumed and never requeues it; store and failure
\* count are unchanged by the step.
C18_SkipFrame ==
    /\ [][C18_Step]_vars
    /\ []C18_SkippedStaysConsumed

\* C18 witness: a message event that identifies its contact was skipped by
\* a worker; nothing of it is in the store, the failure count is K, the
\* queue is drained and every task is marked consumed.
C18_Witness ==
    \E i \in 1..Len(ledger) :
        /\ ledger[i].outcome = "skipped"
        /\ ledger[i].task.data = MsgText
        /\ messages = {}
        /\ conversations = {}
        /\ circuit_breaker_failures = CIRCUIT_BREAKER_THRESHOLD
        /\ webhook_queue = <<>>
        /\ unfinished_tasks = 0

\* The queued tasks whose failure a worker has reported: the processing
\* returned failure and no thread holds the task any more.
ReportedFailures ==
    {i \in 1..Len(ledger) :
        /\ ledger[i].mode = "queued"
        /\ ledger[i].outcome = "failure"
        /\ \A t \in Threads : ~Holds(t, ledger[i].task)}

\* C19, the steps: when the processing of a worker's task returns failure
\* the worker goes on to report it, and the report records one failure
\* (F + 1, T = now), marks the task consumed and returns the worker to
\* taking the next task, leaving the queue as it is.
C19_Steps ==
    \A w \in Workers :
        LET tid == local[w].task.tid
        IN  /\ (/\ tid # 0
                /\ ledger[tid].outcome = "pending"
                /\ ledger'[tid].outcome = "failure") =>
                   /\ pc'[w] = "report"
                   /\ ~local'[w].success
                   /\ local'[w].task = local[w].task
                   /\ circuit_breaker_failures' = circuit_breaker_failures
            /\ (pc[w] = "report" /\ pc'[w] # "report" /\ ~local[w].success) =>
                   /\ circuit_breaker_failures' = circuit_breaker_failures + 1
                   /\ circuit_breaker_last_failure' = now
                   /\ unfinished_tasks' = unfinished_tasks - 1
                   /\ webhook_queue' = webhook_queue
                   /\ pc'[w] = "get"
                   /\ local'[w] = IdleLocal

\* C19, the state: every worker is somewhere in its loop, and the failure
\* count never exceeds the number of failed tasks reported.
C19_WorkersAlive ==
    /\ \A w \in Workers :
          pc[w] \in {"get", "check", "report", "message_write", "conversation_read",
                     "conversation_write", "contact_write", "conversation_lifecycle"}
    /\ circuit_breaker_failures <= Cardinality(ReportedFailures)

\* C19: a failing task never terminates its worker: the worker records
\* exactly one failure with the breaker for it, marks it consumed and goes
\* back to taking the next task.
C19_FailureKeepsWorker ==
    /\ [][C19_Steps]_vars
    /\ []C19_WorkersAlive

\* C19 witness: a worker reported a task that failed on a store call, and
\* workers went on to take and process a later task to success.
C19_Witness ==
    \E i, j \in 1..Len(ledger) :
        /\ i < j
        /\ i \in ReportedFailures
        /\ ledger[i].store_calls >= 1
        /\ ledger[j].mode = "queued"
        /\ ledger[j].outcome = "success"
        /\ \A t \in Threads : ~Holds(t, ledger[j].task)
        /\ \A w \in Workers : pc[w] = "get"
        /\ unfinished_tasks = 0

\* C20: whenever a store call made while a worker processes a task fails
\* or times out, the processing returns failure, so that the worker
\* reports the task to the breaker as a failure (and as nothing else), and
\* the task is not put back on the queue.
C20_StoreFailureReported ==
    [][\A w \in Workers :
          (fault_budget' < fault_budget /\ pc'[w] # pc[w]) =>
              /\ pc'[w] = "report"
              /\ ~local'[w].success
              /\ webhook_queue' = webhook_queue
      ]_vars

\* C21: the breaker's counter and timestamp are updated under one lock: at
\* most one thread is inside a breaker function's body and it holds the
\* lock; whenever no call is in progress the counter and the timestamp are
\* those of the same calls executed whole, one at a time (no lost update);
\* and every isOpen() returns what it returns in that sequential execution
\* (no torn read of counter and timestamp).
InBody(w) == caller[w].at \notin {"idle", "acquire"}

C21_MutualExclusion ==
    \A w \in Workers :
        InBody(w) => /\ circuit_breaker_lock = w
                     /\ \A v \in Workers \ {w} : ~InBody(v)

C21_BreakerCallsLinearizable ==
    /\ C21_MutualExclusion
    /\ (\A w \in Workers : ~InBody(w)) =>
           /\ circuit_breaker_failures = sequential.failures
           /\ circuit_breaker_last_failure = sequential.last_failure
    /\ \A w \in Workers :
           (caller[w].op = "check" /\ caller[w].at \in {"release", "idle"}) =>
               caller[w].result = caller[w].expected

\* Calls of several workers overlap: one worker waits for the lock inside
\* record_failure() while another, inside record_failure() too, has stored
\* the counter and not yet the timestamp, after an earlier call returned.
C21_Witness ==
    \E w \in Workers : \E v \in Workers \ {w} :
        /\ caller[w].op = "record_failure" /\ caller[w].at = "acquire"
        /\ caller[v].op = "record_failure" /\ caller[v].at = "stamp"
        /\ circuit_breaker_failures = 2
        /\ circuit_breaker_last_failure < now

\* The media type of a message event: the nested type of an attachment, the
\* type itself for a simple media type, None for anything else.
MediaTypeOfEvent(data) ==
    LET m == data.message.message
    IN  IF m.type = "attachment" THEN m.attachment.type
        ELSE IF m.type \in {"image", "video", "document", "file", "audio", "media"}
        THEN m.type
        ELSE None

\* C22: a message event processed for a key that has no conversation
\* creates one conversation of that key with message_count 1, media_counts
\* {mediaType: 1} when the event has a media type and empty otherwise, the
\* channel list holding exactly the channel name when the event has one,
\* first and last message timestamp equal to the event's timestamp (when
\* the event carries one), and no lifecycle value.
C22_NewConversation ==
    [][\A t \in Threads :
          LET data == local[t].task.data
              key == ChatId(data)
              media == MediaTypeOfEvent(data)
              channel == Get(data, "channel", <<>>)
              ts == Get(data.message, "timestamp", 0)
          IN  (MessageConversationWrite(t) /\ FindOne(conversations, key) = {}) =>
                  /\ Cardinality(FindOne(conversations', key)) = 1
                  /\ \A d \in FindOne(conversations', key) :
                        /\ d.message_count = 1
                        /\ d.media_counts = (IF media # None THEN media :> 1 ELSE <<>>)
                        /\ d.channel = (IF "name" \in DOMAIN channel
                                        THEN <<channel.name>> ELSE <<>>)
                        /\ ts # 0 =>
                              /\ d.first_message_ts = [sec |-> ts \div 1000, ms |-> ts % 1000]
                              /\ d.last_message_ts = d.first_message_ts
                        /\ d.first_message_ts = d.last_message_ts
                        /\ "lifecycle" \notin DOMAIN d
                        /\ "lifecycle" \notin DOMAIN d.contact
      ]_vars

\* C22 witness: an attachment event with nested type image, whose contact
\* carries a lifecycle of its own, has just created its conversation.
C22_Witness ==
    \E t \in Threads :
        /\ pc[t] \in {"report", "respond"}
        /\ local[t].task.data = MsgImage
        /\ local[t].existing = {}
        /\ \E d \in FindOne(conversations, "+1") :
              /\ d.message_count = 1
              /\ d.media_counts = ("image" :> 1)
              /\ d.channel = <<"telegram">>
              /\ d.first_message_ts = [sec |-> 1, ms |-> 0]
              /\ "lifecycle" \notin DOMAIN d.contact

\* The key the events of a contact are filed under: the phone number when
\* there is a non-empty one, otherwise the contact id as text, otherwise none.
EventKey(data) ==
    LET contact == Get(data, "contact", <<>>)
    IN  IF "phone" \in DOMAIN contact /\ contact.phone # "" THEN contact.phone
        ELSE IF "id" \in DOMAIN contact THEN contact.id
        ELSE None

\* Thread t takes the first step of the processing of its task in this step.
FirstProcessingStep(t) ==
    pc[t] \in {"message_write", "contact_write"} /\ pc'[t] # pc[t]

\* The tasks waiting in the queue.
Queued == {webhook_queue[i].tid : i \in 1..Len(webhook_queue)}

\* C23 (steps): every message written and every conversation created or
\* changed by the processing of an event carries the event's key; the
\* processing of an event that has no key returns failure at once, writes
\* nothing to messages, conversations or contacts, and puts nothing in the
\* queue.
C23_Steps ==
    \A t \in Threads :
        LET data == local[t].task.data
        IN  /\ (pc[t] = "message_write" /\ pc'[t] = "conversation_read") =>
                   \A d \in messages' \ messages : d.chat_id = EventKey(data)
            /\ (pc[t] \in {"conversation_write", "conversation_lifecycle"}
                    /\ pc'[t] # pc[t]) =>
                   \A d \in conversations' \ conversations : d._id = EventKey(data)
            /\ (FirstProcessingStep(t) /\ EventKey(data) = None) =>
                   /\ pc'[t] \in {"report", "respond"}
                   /\ ~local'[t].success
                   /\ ledger'[local[t].task.tid].outcome = "failure"
                   /\ <<messages, conversations, contacts>>' =
                          <<messages, conversations, contacts>>
                   /\ webhook_queue' = webhook_queue

\* C23: the conversation key is the phone when non-empty, else the contact
\* id as text; an accepted event with neither ends as a failure (or is
\* skipped by an open breaker) with no store call, and once it has ended it
\* is never in the queue again.
C23_KeyAndMissingIdentity ==
    /\ [][C23_Steps]_vars
    /\ [](\A i \in 1..Len(ledger) :
            (ledger[i].mode # "refused" /\ EventKey(ledger[i].task.data) = None) =>
                /\ ledger[i].store_calls = 0
                /\ ledger[i].outcome \in {"pending", "failure", "skipped"}
                /\ ledger[i].outcome # "pending" => i \notin Queued)

\* C23 witness: a message event and a lifecycle event without identity were
\* both taken from the queue and rejected, an event keyed by its contact id
\* was filed under that id, and the store holds nothing else.
C23_Witness ==
    /\ \E i, j \in 1..Len(ledger) :
          /\ ledger[i].task.data = MsgAnonymous
          /\ ledger[j].task.data = LifecycleAnonymous
          /\ ledger[i].mode = "queued" /\ ledger[i].outcome = "failure"
          /\ ledger[j].mode = "queued" /\ ledger[j].outcome = "failure"
    /\ \E d \in conversations : d._id = "c1"
    /\ Cardinality(conversations) = 1
    /\ Cardinality(messages) = 1
    /\ contacts = {}
    /\ webhook_queue = <<>>

\* A request with a payload is accepted in this step.
AcceptStep ==
    /\ Len(ledger') = Len(ledger) + 1
    /\ ledger'[Len(ledger')].mode # "refused"

\* C24: the queue never holds more tasks than its capacity; a submit that
\* finds it at capacity leaves it unchanged and goes on at once on the
\* producer's thread; and a producer ready to submit is never made to wait
\* by a full queue.
C24_QueueWithinCapacity ==
    /\ [](Len(webhook_queue) \in 0..QUEUE_MAXSIZE)
    /\ [][(AcceptStep /\ Len(webhook_queue) = QUEUE_MAXSIZE) =>
              /\ webhook_queue' = webhook_queue
              /\ unfinished_tasks' = unfinished_tasks
              /\ ledger'[Len(ledger')].mode = "inline"
              /\ \E p \in Producers : pc[p] = "idle" /\ pc'[p] # "idle"]_vars
    /\ [](\A p \in Producers :
            (pc[p] = "idle" /\ Len(webhook_queue) = QUEUE_MAXSIZE) =>
                /\ ENABLED FasterIncoming(p, MsgText)
                /\ ENABLED FasterLifecycle(p, LifecycleAnn))

\* C24 witness: the queue is at capacity and a request that found it so is
\* being processed on the producer's thread, with a store call made.
C24_Witness ==
    /\ Len(webhook_queue) = QUEUE_MAXSIZE
    /\ \E i \in 1..Len(ledger) :
          /\ ledger[i].mode = "inline"
          /\ ledger[i].response = 0
          /\ ledger[i].store_calls > 0
          /\ \E j \in 1..(i - 1) : webhook_queue[1] = ledger[j].task

\* Task i was taken from the queue and marked done: it is not waiting, no
\* worker holds it, and it was processed or discarded by the open breaker.
Consumed(i) ==
    /\ i <= Len(ledger)
    /\ i \notin Queued
    /\ \A w \in Workers : local[w].task.tid # i
    /\ ledger[i].outcome \in {"success", "failure", "skipped"}

\* C25: under fair scheduling of the workers, every task placed in the
\* queue is eventually taken by a worker and marked done, processed or
\* discarded, whatever happened to the tasks before it; the queue's count
\* of unfinished tasks is the number of tasks waiting or held by a worker.
C25_QueuedTaskEventuallyConsumed ==
    /\ \A i \in 1..MaxLiveSubmits :
          (i <= Len(ledger) /\ ledger[i].mode = "queued") ~> Consumed(i)
    /\ [](unfinished_tasks =
             Len(webhook_queue) +
             Cardinality({w \in Workers : local[w].task.tid # 0}))

\* C25 witness: a queued task failed, a task queued behind it was consumed
\* as well, and nothing is left unfinished.
C25_Witness ==
    /\ unfinished_tasks = 0
    /\ \A w \in Workers : pc[w] = "get"
    /\ \E i, j \in 1..Len(ledger) :
          /\ i < j
          /\ ledger[i].mode = "queued" /\ ledger[i].outcome = "failure"
          /\ ledger[i].store_calls > 0
          /\ ledger[j].mode = "queued" /\ Consumed(j)
          /\ ledger[j].outcome = "success"

\* C26: message_count of a conversation is monotonically increasing: no
\* step, under any interleaving of the threads updating one key, lowers
\* the message_count of a conversation.
C26_MessageCountMonotone ==
    [][\A d \in conversations : \A d2 \in conversations' :
          d2._id = d._id => d2.message_count >= d.message_count]_vars

\* The queued tasks rejected for missing identity that a worker has
\* reported, and the queued tasks reported as successes.
ReportedRejections ==
    {i \in ReportedFailures :
        EventKey(ledger[i].task.data) = None /\ ledger[i].store_calls = 0}
ReportedSuccesses ==
    {i \in 1..Len(ledger) :
        /\ ledger[i].mode = "queued"
        /\ ledger[i].outcome = "success"
        /\ \A t \in Threads : ~Holds(t, ledger[i].task)}

\* C27 (steps): a worker that reports a task rejected for missing identity
\* (no store call was made for it) raises the failure count by one and
\* stamps the time; a worker that takes a task while the count has reached
\* K inside the window discards it without a store call.
C27_Steps ==
    \A w \in Workers :
        LET tid == local[w].task.tid
        IN  /\ (/\ pc[w] = "report" /\ pc'[w] # "report"
                /\ EventKey(local[w].task.data) = None) =>
                   /\ ledger[tid].store_calls = 0
                   /\ circuit_breaker_failures' = circuit_breaker_failures + 1
                   /\ circuit_breaker_last_failure' = now
            /\ (/\ pc[w] = "check" /\ pc'[w] # "check"
                /\ circuit_breaker_failures >= CIRCUIT_BREAKER_THRESHOLD
                /\ WithinWindow) =>
                   /\ ledger'[tid].outcome = "skipped"
                   /\ ledger'[tid].store_calls = 0
                   /\ UNCHANGED storeVars

\* C27: with a store that never fails, the failure count is made of the
\* rejected tasks alone: it is at least the rejections reported minus the
\* successes reported and at most the rejections reported, and a task is
\* discarded only after K rejections were reported.
C27_RejectionsCountTowardBreaker ==
    /\ [][C27_Steps]_vars
    /\ [](/\ circuit_breaker_failures <= Cardinality(ReportedRejections)
          /\ circuit_breaker_failures >=
                 Cardinality(ReportedRejections) - Cardinality(ReportedSuccesses)
          /\ \A i \in 1..Len(ledger) :
                ledger[i].outcome = "skipped" =>
                    Cardinality(ReportedRejections) >= CIRCUIT_BREAKER_THRESHOLD)

\* C27 witness: K tasks without identity, a message event and a lifecycle
\* event, were reported with no store call ever made; the count stands at
\* K and a valid task taken next was discarded without a store attempt.
C27_Witness ==
    /\ circuit_breaker_failures = CIRCUIT_BREAKER_THRESHOLD
    /\ Cardinality(ReportedRejections) = CIRCUIT_BREAKER_THRESHOLD
    /\ \E i, j \in ReportedRejections :
          /\ ledger[i].task.webhook_type = "message"
          /\ ledger[j].task.webhook_type = "lifecycle"
    /\ \E k \in 1..Len(ledger) :
          /\ EventKey(ledger[k].task.data) # None
          /\ ledger[k].outcome = "skipped"
          /\ ledger[k].store_calls = 0
    /\ messages = {} /\ conversations = {} /\ contacts = {}

\* The breaker would report open: the count has reached K inside the window.
OpenNow == circuit_breaker_failures >= CIRCUIT_BREAKER_THRESHOLD /\ WithinWindow

\* C28: the inline fallback does not consult or touch the breaker: a
\* request accepted with the queue full starts its processing on the
\* producer's thread even while the breaker is open, no step of a producer
\* changes the failure count or the last-failure time, whether the
\* processing succeeds or fails, and an inline task is never discarded.
C28_InlineIndependentOfBreaker ==
    /\ [][/\ (AcceptStep /\ ledger'[Len(ledger')].mode = "inline") =>
                 \E p \in Producers :
                     /\ local'[p].task = ledger'[Len(ledger')].task
                     /\ pc'[p] \in {"message_write", "contact_write"}
          /\ \A p \in Producers :
                 pc'[p] # pc[p] =>
                     /\ circuit_breaker_failures' = circuit_breaker_failures
                     /\ circuit_breaker_last_failure' = circuit_breaker_last_failure
         ]_vars
    /\ [](\A i \in 1..Len(ledger) :
            ledger[i].mode = "inline" => ledger[i].outcome # "skipped")

\* C28 witness: the breaker is open after K reported failures and the
\* queue is full; a request accepted after the task that waits in the queue
\* is processed on the producer's thread: its message is written, its
\* conversation read, and its conversation write comes next.
C28_Witness ==
    /\ OpenNow
    /\ Cardinality(ReportedFailures) = CIRCUIT_BREAKER_THRESHOLD
    /\ Len(webhook_queue) = QUEUE_MAXSIZE
    /\ \E p \in Producers :
          LET e == ledger[local[p].task.tid]
          IN  /\ pc[p] = "conversation_write"
              /\ e.mode = "inline"
              /\ e.store_calls = 2
              /\ webhook_queue[1].tid < e.task.tid
              /\ \E d \in messages : d._id = "m1"

\* The contacts (by the key of their events) whose transitions the contact
\* record d holds in its history.
ContactsIn(d) ==
    {EventKey(ledger[i].task.data) :
        i \in {j \in 1..Len(ledger) :
                 \E k \in 1..Len(d.lifecycle_history) :
                     d.lifecycle_history[k].event_id =
                         Get(ledger[j].task.data, "event_id", None)}}

\* C29: lifecycle events of distinct contacts never share a contact record:
\* the history of every contact record holds the transitions of one
\* contact only.
C29_ContactsKeptApart ==
    \A d \in contacts : Cardinality(ContactsIn(d)) <= 1

====
